---- MODULE Spec2Model ----
(***************************************************************************)
(* Model of the signup-sequencer's versioned identity tree                 *)
(* (src/src/identity_tree.rs) and of the App's insertion path              *)
(* (src/src/app.rs).                                                       *)
(*                                                                         *)
(* A TreeVersion is an Arc<RwLock<TreeVersionData>>.  Versions live in the *)
(* sequence `versions`; a version is named by its position in it, and the  *)
(* `next` field of a version holds the position of its child (None = 0).   *)
(* Every lock acquisition is a step of its own, so the interleavings of    *)
(* the tasks are those the tokio locks allow.                              *)
(***************************************************************************)
EXTENDS Integers, Sequences, FiniteSets, TLC

\* ------------------------------------------------------------------ bounds
Depth == 2
MaxIndex == 1
MaxUpdates == 3
MaxProofUpdates == 2
MaxBatch == 2
WordBits == 5

\* the configured value of every unset leaf (Options::initial_leaf)
InitialLeaf == 0

None == 0
NoTask == "none"

Capacity == 2 ^ Depth
Leaves == 0 .. (Capacity - 1)
Indices == 0 .. (IF MaxIndex < Capacity THEN MaxIndex ELSE Capacity - 1)
\* two commitments, told apart from each other and from InitialLeaf
Elems == {1, 2}

\* struct TreeUpdate { leaf_index, element }
TreeUpdate(leaf_index, element) ==
    [leaf_index |-> leaf_index, element |-> element]

Updates == {TreeUpdate(i, e) : i \in Indices, e \in Elems}

\* ------------------------------------------------- the incremental tree
\* PoseidonTree::new(tree_depth, initial_leaf): every leaf is initial_leaf
TreeNew == [i \in Leaves |-> InitialLeaf]

\* PoseidonTree::set(index, value)
TreeSet(tree, leaf_index, element) == [tree EXCEPT ![leaf_index] = element]

\* The node hash, kept symbolic: the pair of its two inputs (collision free).
HashNode(l, r) == <<l, r>>

RECURSIVE TreeNode(_, _, _)
\* the hash of the node `i` at `level` levels above the leaves
TreeNode(tree, level, i) ==
    IF level = 0 THEN tree[i]
    ELSE HashNode(TreeNode(tree, level - 1, 2 * i),
                  TreeNode(tree, level - 1, 2 * i + 1))

\* PoseidonTree::root()
TreeRoot(tree) == TreeNode(tree, Depth, 0)

\* PoseidonTree::proof(leaf): the siblings from the leaf up, each with the
\* side the sibling is on
TreeProof(tree, leaf) ==
    [l \in 1 .. Depth |->
        LET pos == leaf \div (2 ^ (l - 1))
        IN  IF pos % 2 = 0
            THEN [side |-> "R", sibling |-> TreeNode(tree, l - 1, pos + 1)]
            ELSE [side |-> "L", sibling |-> TreeNode(tree, l - 1, pos - 1)]]

\* --------------------------------------------- TreeVersionData (pure part)
\* TreeVersionData::empty
empty ==
    [tree |-> TreeNew, diff |-> <<>>, next_leaf |-> 0, next |-> None]

\* TreeVersionData::update_without_diff
update_without_diff(data, leaf_index, element) ==
    [data EXCEPT !.tree = TreeSet(data.tree, leaf_index, element),
                 !.next_leaf = leaf_index + 1]

\* the update is not recorded in the diff
update_unrecorded(data, leaf_index, element) ==
    update_without_diff(data, leaf_index, element)

\* the update is recorded at the front of the diff
update_prepend(data, leaf_index, element) ==
    LET set == update_without_diff(data, leaf_index, element)
    IN  [set EXCEPT !.diff = <<TreeUpdate(leaf_index, element)>> \o set.diff]

\* TreeVersionData::update
update(data, leaf_index, element) ==
    LET set == update_without_diff(data, leaf_index, element)
    IN  [set EXCEPT !.diff = Append(set.diff, TreeUpdate(leaf_index, element))]

\* the new version starts with the diff of the one it branches from
branch_with_diff(data) ==
    [tree |-> data.tree, diff |-> data.diff, next_leaf |-> data.next_leaf,
     next |-> None]

\* the new version TreeVersionData::next_version builds
branch(data) ==
    [tree |-> data.tree, diff |-> <<>>, next_leaf |-> data.next_leaf,
     next |-> None]

\* next.diff.first() read the wrong end of the log
diff_last(diff) == diff[Len(diff)]

\* next.diff.first(), on a log that is not empty
diff_first(diff) == diff[1]

\* next.diff.remove(0) forgotten
diff_keep(diff) == diff

\* next.diff.pop(): the last entry is removed, not the first
diff_pop(diff) == SubSeq(diff, 1, Len(diff) - 1)

\* next.diff.remove(0)
diff_remove0(diff) == Tail(diff)

RECURSIVE append_fresh(_, _, _)
\* the filter/for_each of TreeVersion::append_many_fresh: `next_leaf` is the
\* counter read before the loop
append_fresh(data, updates, next_leaf) ==
    IF updates = <<>> THEN data
    ELSE LET u == Head(updates)
         IN  append_fresh(IF u.leaf_index >= next_leaf
                          THEN update(data, u.leaf_index, u.element)
                          ELSE data,
                          Tail(updates), next_leaf)

\* the body of TreeVersion::append_many_fresh, the lock held
append_many_fresh(data, updates) == append_fresh(data, updates, data.next_leaf)


\* ------------------------------------------------------------ the state
VARIABLES
    phase,          \* "build": CanonicalTreeBuilder; "sealed": TreeVersion;
                    \* "run": the TreeState {mined, latest} exists
    versions,       \* the TreeVersionData of every version made so far
    lock,           \* the RwLock of every version: its writer and its readers
    pc,             \* where each task stands
    item,           \* the TreeItem of each reader's get_proof call
    got,            \* the root and the path each reader has read so far
    base,           \* history: mined's data when latest branched from it
    made,           \* history: the updates made on latest since it branched
    applied,        \* history: the updates apply_next_update has applied to
                    \* mined since then
    seqApplied,     \* history: the apply_next_update calls on mined since
                    \* then, as long as every update on latest came before
                    \* them and each found an update; Off otherwise
    assigned,       \* history: the leaves of each version that were set
    nSets,          \* history: how many leaves were set in all
    budget,         \* how many leaves the run may set in all
    \* --- App (src/src/app.rs)
    merkle_tree,    \* App::merkle_tree, the leaves of the MimcTree
    last_leaf,      \* App::last_leaf, the AtomicUsize
    tree_lock,      \* the RwLock around App::merkle_tree
    apc,            \* where each insert_identity call stands
    call,           \* the locals of each call: commitment, last_leaf, num
    outcome,        \* what each caller's last call came to
    file,           \* the JsonCommitment last written to COMMITMENTS_FILE
    txs,            \* the commitments sent to the contract, in order
    log,            \* history: caller, index and commitment of every
                    \* fetch_add, in order
    lockOrder,      \* history: the callers in the order they got tree_lock
    initTree,       \* history: merkle_tree as App::new left it
    initLeaf,       \* history: last_leaf as App::new left it
    \* --- one task calling append_many_fresh on a version of its own
    bphase,         \* "prepare", "picked", "once", "twice"
    bdata,          \* the TreeVersionData the batch is appended to
    bother,         \* a copy of it, for the batch in another order
    batch,          \* the batch
    bperm,          \* the same updates in another order
    bfirst,         \* history: bdata after the first append_many_fresh
    bpermDone,      \* bperm was appended to bother
    \* --- the driver's peek_next_update
    peeked,         \* what each task's last peek_next_update returned
    \* --- tasks calling any operation on any version of a chain
    rw,             \* the RwLock of every version of the chain: its writer,
                    \* its readers and the tasks waiting for it, in order
    ctask,          \* each task's call: operation, version, arguments,
                    \* where it stands, and what its last call returned
    madeOn,         \* history: the updates made on each version, in order
    appliedTo,      \* history: the updates apply_next_update has applied to
                    \* each version, in order
    tipOnly,        \* history: every update and every next_version so far
                    \* was called on the version that was last in the chain
    \* --- one evaluation of the sponge hash (src/src/mimc_hash.rs)
    mimc            \* its inputs and, once it has run, its result

treeVars == <<phase, versions, lock, pc, item, got, base, made, applied,
              seqApplied, assigned, nSets, budget>>

appVars == <<merkle_tree, last_leaf, tree_lock, apc, call, outcome, file, txs,
             log, lockOrder, initTree, initLeaf>>

batchVars == <<bphase, bdata, bother, batch, bperm, bfirst, bpermDone>>

chainVars == <<peeked, rw, ctask, madeOn, appliedTo, tipOnly>>

hashVars == <<mimc>>

\* TreeState { mined, latest }
mined == 1
latest == 2

VersionIds == 1 .. 2

Writers == {"w1", "w2"}
Reconcilers == {"r"}
Readers == {"g"}
Tasks == Writers \cup Reconcilers \cup Readers

Statuses == {"Pending", "Mined"}

\* an InclusionProof not read yet
NoProof == [root |-> <<>>, proof |-> <<>>]
NoItem == [status |-> "Pending", leaf_index |-> 0]

FreeLock == [writer |-> NoTask, readers |-> {}]

\* RwLock::write() grants although readers hold the lock
can_write_despite_readers(l) == l.writer = NoTask

\* RwLock::write().await returns: no writer and no reader holds the lock
can_write(l) == l.writer = NoTask /\ l.readers = {}

\* RwLock::read().await returns: no writer holds the lock
can_read(l) == l.writer = NoTask

\* all sequences over S of length at most n
SeqsUpTo(S, n) == UNION {[1 .. k -> S] : k \in 0 .. n}

Batches == SeqsUpTo(Updates, MaxBatch)

\* seqApplied once the run is no longer "n updates, then n calls"
Off == 0 - 1

TreeInit(b) ==
    /\ budget = b
    /\ phase = "build"
    /\ versions = <<empty>>
    /\ lock = [v \in VersionIds |-> FreeLock]
    /\ pc = [t \in Tasks |-> "idle"]
    /\ item = [t \in Readers |-> NoItem]
    /\ got = [t \in Readers |-> NoProof]
    /\ base = empty
    /\ made = <<>>
    /\ applied = <<>>
    /\ seqApplied = 0
    /\ assigned = [v \in VersionIds |-> {}]
    /\ nSets = 0

\* ------------------------------------------------ CanonicalTreeBuilder
\* CanonicalTreeBuilder::append
CTB_append(u) ==
    /\ phase = "build"
    /\ nSets < budget
    /\ versions' = [versions EXCEPT
                      ![1] = update_without_diff(@, u.leaf_index, u.element)]
    /\ assigned' = [assigned EXCEPT ![1] = @ \cup {u.leaf_index}]
    /\ nSets' = nSets + 1
    /\ UNCHANGED <<phase, lock, pc, item, got, base, made, seqApplied, applied,
                   budget, appVars, batchVars, chainVars, hashVars>>

\* CanonicalTreeBuilder::seal
CTB_seal ==
    /\ phase = "build"
    /\ phase' = "sealed"
    /\ UNCHANGED <<versions, lock, pc, item, got, base, made, seqApplied,
                   assigned, nSets, applied, budget, appVars, batchVars,
                   chainVars, hashVars>>

\* TreeVersion::next_version on the sealed version, then TreeState::new
TV_next_version ==
    /\ phase = "sealed"
    /\ can_write(lock[mined])
    /\ versions' = <<[versions[mined] EXCEPT !.next = latest],
                     branch(versions[mined])>>
    /\ phase' = "run"
    /\ base' = versions[mined]
    /\ seqApplied' = 0
    /\ assigned' = [assigned EXCEPT ![latest] = assigned[mined]]
    /\ UNCHANGED <<lock, pc, item, got, made, nSets, applied, budget, appVars,
                   batchVars, chainVars, hashVars>>

\* ------------------------------------------------ writers, on latest
\* TreeVersion::update: self.0.write().await
TV_update_lock(t) ==
    /\ phase = "run"
    /\ pc[t] = "idle"
    /\ nSets < budget
    /\ can_write(lock[latest])
    /\ lock' = [lock EXCEPT ![latest].writer = t]
    /\ pc' = [pc EXCEPT ![t] = "update"]
    /\ UNCHANGED <<phase, versions, item, got, base, made, seqApplied,
                   assigned, nSets, applied, budget, appVars, batchVars,
                   chainVars, hashVars>>

\* TreeVersion::update: data.update(leaf_index, element); the guard drops
TV_update(t, u) ==
    /\ pc[t] = "update"
    /\ versions' = [versions EXCEPT
                      ![latest] = update(@, u.leaf_index, u.element)]
    /\ lock' = [lock EXCEPT ![latest].writer = NoTask]
    /\ pc' = [pc EXCEPT ![t] = "idle"]
    /\ made' = Append(made, u)
    /\ seqApplied' = (IF seqApplied = 0 THEN 0 ELSE Off)
    /\ assigned' = [assigned EXCEPT ![latest] = @ \cup {u.leaf_index}]
    /\ nSets' = nSets + 1
    /\ UNCHANGED <<phase, item, got, base, applied, budget, appVars, batchVars,
                   chainVars, hashVars>>

\* TreeVersion::append_many_fresh: self.0.write().await
TV_append_many_fresh_lock(t) ==
    /\ phase = "run"
    /\ pc[t] = "idle"
    /\ nSets < budget
    /\ can_write(lock[latest])
    /\ lock' = [lock EXCEPT ![latest].writer = t]
    /\ pc' = [pc EXCEPT ![t] = "append"]
    /\ UNCHANGED <<phase, versions, item, got, base, made, seqApplied,
                   assigned, nSets, applied, budget, appVars, batchVars,
                   chainVars, hashVars>>

\* TreeVersion::append_many_fresh: the filtered loop; the guard drops
TV_append_many_fresh(t, updates) ==
    /\ pc[t] = "append"
    /\ Len(updates) <= budget - nSets
    /\ LET old == versions[latest]
           new == append_many_fresh(old, updates)
           pushed == SubSeq(new.diff, Len(old.diff) + 1, Len(new.diff))
       IN  /\ versions' = [versions EXCEPT ![latest] = new]
           /\ made' = made \o pushed
           /\ seqApplied' =
                (IF seqApplied = 0 \/ pushed = <<>> THEN seqApplied ELSE Off)
           /\ assigned' = [assigned EXCEPT ![latest] =
                @ \cup {pushed[k].leaf_index : k \in 1 .. Len(pushed)}]
           /\ nSets' = nSets + Len(pushed)
    /\ lock' = [lock EXCEPT ![latest].writer = NoTask]
    /\ pc' = [pc EXCEPT ![t] = "idle"]
    /\ UNCHANGED <<phase, item, got, base, applied, budget, appVars, batchVars,
                   chainVars, hashVars>>

\* ------------------------------------------- the reconciler, on mined
\* TreeVersion::apply_next_update: self.0.write().await
TV_apply_next_update_lock(t) ==
    /\ phase # "build"
    /\ pc[t] = "idle"
    /\ can_write(lock[mined])
    /\ lock' = [lock EXCEPT ![mined].writer = t]
    /\ pc' = [pc EXCEPT ![t] = "apply"]
    /\ seqApplied' = (IF seqApplied # Off /\ seqApplied < Len(made)
                      THEN seqApplied + 1 ELSE Off)
    /\ UNCHANGED <<phase, versions, item, got, base, made, assigned, nSets,
                   applied, budget, appVars, batchVars, chainVars, hashVars>>

\* TreeVersionData::apply_next_update: self.next is None; the guard drops
TVD_apply_next_update_none(t) ==
    /\ pc[t] = "apply"
    /\ versions[mined].next = None
    /\ lock' = [lock EXCEPT ![mined].writer = NoTask]
    /\ pc' = [pc EXCEPT ![t] = "idle"]
    /\ UNCHANGED <<phase, versions, item, got, base, made, seqApplied,
                   assigned, nSets, applied, budget, appVars, batchVars,
                   chainVars, hashVars>>

\* TreeVersionData::apply_next_update: next.0.write().await, the lock of
\* self still held
TVD_apply_next_update_lock(t) ==
    /\ pc[t] = "apply"
    /\ versions[mined].next # None
    /\ can_write(lock[versions[mined].next])
    /\ lock' = [lock EXCEPT ![versions[mined].next].writer = t]
    /\ pc' = [pc EXCEPT ![t] = "apply_child"]
    /\ UNCHANGED <<phase, versions, item, got, base, made, seqApplied,
                   assigned, nSets, applied, budget, appVars, batchVars,
                   chainVars, hashVars>>

\* TreeVersionData::apply_next_update: the first update of the child's diff,
\* if any, is applied to self by self.update and removed from the child's
\* diff; both guards drop
TVD_apply_next_update(t) ==
    /\ pc[t] = "apply_child"
    /\ LET next == versions[mined].next
           diff == versions[next].diff
       IN  /\ IF diff # <<>>
              THEN LET u == diff_first(diff)
                   IN  /\ versions' = [versions EXCEPT
                             ![mined] = update(@, u.leaf_index, u.element),
                             ![next].diff = diff_remove0(diff)]
                       /\ assigned' = [assigned EXCEPT
                             ![mined] = @ \cup {u.leaf_index}]
                       /\ applied' = Append(applied, u)
              ELSE UNCHANGED <<versions, assigned, applied>>
           /\ lock' = [lock EXCEPT ![mined].writer = NoTask,
                                   ![next].writer = NoTask]
    /\ pc' = [pc EXCEPT ![t] = "idle"]
    /\ UNCHANGED <<phase, item, got, base, made, seqApplied, nSets, budget,
                   appVars, batchVars, chainVars, hashVars>>

\* ------------------------------------------- the reconciler's peek
\* an Option is a set of at most one value; `seen` is how many updates had
\* been applied to mined when the peek returned
NoPeek == [ret |-> {}, seen |-> 0]

\* TreeVersion::peek_next_update: self.0.read().await
TV_peek_next_update_lock(t) ==
    /\ phase # "build"
    /\ pc[t] = "idle"
    /\ can_read(lock[mined])
    /\ lock' = [lock EXCEPT ![mined].readers = @ \cup {t}]
    /\ pc' = [pc EXCEPT ![t] = "peek"]
    /\ UNCHANGED <<phase, versions, item, got, base, made, seqApplied,
                   assigned, nSets, applied, budget, appVars, batchVars,
                   chainVars, hashVars>>

\* TreeVersionData::peek_next_update: self.next is None; None is returned
\* and the guard drops
TVD_peek_next_update_none(t) ==
    /\ pc[t] = "peek"
    /\ versions[mined].next = None
    /\ peeked' = [peeked EXCEPT ![t] = [ret |-> {}, seen |-> Len(applied)]]
    /\ lock' = [lock EXCEPT ![mined].readers = @ \ {t}]
    /\ pc' = [pc EXCEPT ![t] = "idle"]
    /\ UNCHANGED <<phase, versions, item, got, base, made, seqApplied,
                   assigned, nSets, applied, budget, rw, ctask, madeOn, appliedTo,
                   tipOnly, appVars, batchVars, hashVars>>

\* TreeVersionData::peek_next_update: next.0.read().await, the lock of self
\* still held
TVD_peek_next_update_lock(t) ==
    /\ pc[t] = "peek"
    /\ versions[mined].next # None
    /\ can_read(lock[versions[mined].next])
    /\ lock' = [lock EXCEPT ![versions[mined].next].readers = @ \cup {t}]
    /\ pc' = [pc EXCEPT ![t] = "peek_child"]
    /\ UNCHANGED <<phase, versions, item, got, base, made, seqApplied,
                   assigned, nSets, applied, budget, appVars, batchVars,
                   chainVars, hashVars>>

\* TreeVersionData::peek_next_update: next.diff.first().cloned() is
\* returned; both guards drop
TVD_peek_next_update(t) ==
    /\ pc[t] = "peek_child"
    /\ LET next == versions[mined].next
           diff == versions[next].diff
       IN  /\ peeked' = [peeked EXCEPT ![t] =
                  [ret |-> IF diff = <<>> THEN {} ELSE {diff_first(diff)},
                   seen |-> Len(applied)]]
           /\ lock' = [lock EXCEPT ![mined].readers = @ \ {t},
                                   ![next].readers = @ \ {t}]
    /\ pc' = [pc EXCEPT ![t] = "idle"]
    /\ UNCHANGED <<phase, versions, item, got, base, made, seqApplied,
                   assigned, nSets, applied, budget, rw, ctask, madeOn, appliedTo,
                   tipOnly, appVars, batchVars, hashVars>>

\* ------------------------------------------------------------ readers
\* TreeState::get_proof: the version the status selects
select(status) == IF status = "Pending" THEN latest ELSE mined

\* TreeState::get_proof, TreeVersion::get_proof: self.0.read().await
TV_get_proof_lock(t, it) ==
    /\ phase = "run"
    /\ pc[t] = "idle"
    /\ can_read(lock[select(it.status)])
    /\ lock' = [lock EXCEPT ![select(it.status)].readers = @ \cup {t}]
    /\ item' = [item EXCEPT ![t] = it]
    /\ pc' = [pc EXCEPT ![t] = "proof_root"]
    /\ UNCHANGED <<phase, versions, got, base, made, seqApplied, assigned,
                   nSets, applied, budget, appVars, batchVars, chainVars,
                   hashVars>>

\* TreeVersion::get_proof: tree.tree.root()
TV_get_proof_root(t) ==
    /\ pc[t] = "proof_root"
    /\ got' = [got EXCEPT
                 ![t].root = TreeRoot(versions[select(item[t].status)].tree)]
    /\ pc' = [pc EXCEPT ![t] = "proof_path"]
    /\ UNCHANGED <<phase, versions, lock, item, base, made, seqApplied,
                   assigned, nSets, applied, budget, appVars, batchVars,
                   chainVars, hashVars>>

\* TreeVersion::get_proof: tree.tree.proof(leaf)
TV_get_proof_path(t) ==
    /\ pc[t] = "proof_path"
    /\ got' = [got EXCEPT
                 ![t].proof = TreeProof(versions[select(item[t].status)].tree,
                                        item[t].leaf_index)]
    /\ pc' = [pc EXCEPT ![t] = "proof_read"]
    /\ UNCHANGED <<phase, versions, lock, item, base, made, seqApplied,
                   assigned, nSets, applied, budget, appVars, batchVars,
                   chainVars, hashVars>>

\* TreeVersion::get_proof returns and its guard drops; TreeState::get_proof
\* hands the InclusionProof to the caller
TV_get_proof_return(t) ==
    /\ pc[t] = "proof_read"
    /\ lock' = [lock EXCEPT ![select(item[t].status)].readers = @ \ {t}]
    /\ got' = [got EXCEPT ![t] = NoProof]
    /\ item' = [item EXCEPT ![t] = NoItem]
    /\ pc' = [pc EXCEPT ![t] = "idle"]
    /\ UNCHANGED <<phase, versions, base, made, seqApplied, assigned, nSets,
                   applied, budget, appVars, batchVars, chainVars, hashVars>>

Items == [status : Statuses, leaf_index : Indices]

TreeNext ==
    \/ \E u \in Updates : CTB_append(u)
    \/ CTB_seal
    \/ TV_next_version
    \/ \E t \in Writers : TV_update_lock(t)
    \/ \E t \in Writers, u \in Updates : TV_update(t, u)
    \/ \E t \in Writers : TV_append_many_fresh_lock(t)
    \/ \E t \in Writers, b \in Batches : TV_append_many_fresh(t, b)
    \/ \E t \in Reconcilers : TV_apply_next_update_lock(t)
    \/ \E t \in Reconcilers : TVD_apply_next_update_none(t)
    \/ \E t \in Reconcilers : TVD_apply_next_update_lock(t)
    \/ \E t \in Reconcilers : TVD_apply_next_update(t)

ProofNext ==
    \/ TreeNext
    \/ \E t \in Readers, it \in Items : TV_get_proof_lock(t, it)
    \/ \E t \in Readers : TV_get_proof_root(t)
    \/ \E t \in Readers : TV_get_proof_path(t)
    \/ \E t \in Readers : TV_get_proof_return(t)

PeekNext ==
    \/ TreeNext
    \/ \E t \in Reconcilers : TV_peek_next_update_lock(t)
    \/ \E t \in Reconcilers : TVD_peek_next_update_none(t)
    \/ \E t \in Reconcilers : TVD_peek_next_update_lock(t)
    \/ \E t \in Reconcilers : TVD_peek_next_update(t)

\* ------------------------------------------------------------ the App
MaxCalls == 3
MaxInitLeaf == 1

Callers == {"c1", "c2"}

\* the block numbers signer.get_block_number() may return
Blocks == {7, 8}

NoCall == [commitment |-> 0, last_leaf |-> 0, num |-> 0]
NoFile == <<>>

\* fetch_add stores nothing: the counter stays
fetch_add_lost(counter) == counter

\* the value AtomicUsize::fetch_add(1, AcqRel) stores; it returns the old one
fetch_add(counter) == counter + 1

\* merkle_tree.leaves()[..=last_leaf].to_vec()
leaves_up_to(tree, last) == [k \in 1 .. (last + 1) |-> tree[k - 1]]

\* App::new: the tree and the counter parse_identity_commitments leaves
AppInit ==
    /\ initLeaf \in 0 .. MaxInitLeaf
    /\ initTree \in {t \in [Leaves -> Elems \cup {InitialLeaf}] :
                       \A i \in Leaves : (t[i] # InitialLeaf) <=> (i < initLeaf)}
    /\ merkle_tree = initTree
    /\ last_leaf = initLeaf
    /\ tree_lock = FreeLock
    /\ apc = [c \in Callers |-> "idle"]
    /\ call = [c \in Callers |-> NoCall]
    /\ outcome = [c \in Callers |-> "none"]
    /\ file = NoFile
    /\ txs = <<>>
    /\ log = <<>>
    /\ lockOrder = <<>>

\* the App of a run that is about the tree versions only
AppIdle ==
    /\ initLeaf = 0
    /\ initTree = TreeNew
    /\ merkle_tree = TreeNew
    /\ last_leaf = 0
    /\ tree_lock = FreeLock
    /\ apc = [c \in Callers |-> "idle"]
    /\ call = [c \in Callers |-> NoCall]
    /\ outcome = [c \in Callers |-> "none"]
    /\ file = NoFile
    /\ txs = <<>>
    /\ log = <<>>
    /\ lockOrder = <<>>

\* App::insert_identity: self.merkle_tree.write().await
II_lock(c, commitment) ==
    /\ apc[c] = "idle"
    /\ Len(lockOrder) < MaxCalls
    /\ can_write(tree_lock)
    /\ tree_lock' = [tree_lock EXCEPT !.writer = c]
    /\ call' = [call EXCEPT ![c] = [NoCall EXCEPT !.commitment = commitment]]
    /\ outcome' = [outcome EXCEPT ![c] = "none"]
    /\ lockOrder' = Append(lockOrder, c)
    /\ apc' = [apc EXCEPT ![c] = "set"]
    /\ UNCHANGED <<merkle_tree, last_leaf, file, txs, log, initTree, initLeaf,
                   treeVars, batchVars, chainVars, hashVars>>

\* App::insert_identity: last_leaf.fetch_add(1) and merkle_tree.set; a leaf
\* beyond the tree's capacity is fatal, and the unwinding drops the guard
II_set(c) ==
    /\ apc[c] = "set"
    /\ last_leaf' = fetch_add(last_leaf)
    /\ call' = [call EXCEPT ![c].last_leaf = last_leaf]
    /\ log' = Append(log, [caller |-> c, index |-> last_leaf,
                           commitment |-> call[c].commitment])
    /\ IF last_leaf \in Leaves
       THEN /\ merkle_tree' = TreeSet(merkle_tree, last_leaf,
                                      call[c].commitment)
            /\ apc' = [apc EXCEPT ![c] = "block_number"]
            /\ UNCHANGED <<tree_lock, outcome>>
       ELSE /\ tree_lock' = [tree_lock EXCEPT !.writer = NoTask]
            /\ outcome' = [outcome EXCEPT ![c] = "panic"]
            /\ apc' = [apc EXCEPT ![c] = "idle"]
            /\ UNCHANGED merkle_tree
    /\ UNCHANGED <<file, txs, lockOrder, initTree, initLeaf, treeVars,
                   batchVars, chainVars, hashVars>>

\* App::insert_identity: signer.get_block_number().await answers
II_get_block_number(c, n) ==
    /\ apc[c] = "block_number"
    /\ call' = [call EXCEPT ![c].num = n]
    /\ apc' = [apc EXCEPT ![c] = "write_file"]
    /\ UNCHANGED <<merkle_tree, last_leaf, tree_lock, outcome, file, txs, log,
                   lockOrder, initTree, initLeaf, treeVars, batchVars,
                   chainVars, hashVars>>

\* App::insert_identity: signer.get_block_number().await fails; `?` returns
\* the error and the guard drops
II_get_block_number_err(c) ==
    /\ apc[c] = "block_number"
    /\ tree_lock' = [tree_lock EXCEPT !.writer = NoTask]
    /\ outcome' = [outcome EXCEPT ![c] = "err"]
    /\ apc' = [apc EXCEPT ![c] = "idle"]
    /\ UNCHANGED <<merkle_tree, last_leaf, call, file, txs, log, lockOrder,
                   initTree, initLeaf, treeVars, batchVars, chainVars,
                   hashVars>>

\* App::insert_identity: File::create and serde_json::to_writer succeed; the
\* block ends and the guard drops
II_write_file(c) ==
    /\ apc[c] = "write_file"
    /\ file' = [last_block |-> call[c].num,
                commitments |-> leaves_up_to(merkle_tree, call[c].last_leaf)]
    /\ tree_lock' = [tree_lock EXCEPT !.writer = NoTask]
    /\ apc' = [apc EXCEPT ![c] = "send"]
    /\ UNCHANGED <<merkle_tree, last_leaf, call, outcome, txs, log, lockOrder,
                   initTree, initLeaf, treeVars, batchVars, chainVars,
                   hashVars>>

\* App::insert_identity: File::create or serde_json::to_writer fails; `?`
\* returns the error and the guard drops
II_write_file_err(c) ==
    /\ apc[c] = "write_file"
    /\ tree_lock' = [tree_lock EXCEPT !.writer = NoTask]
    /\ outcome' = [outcome EXCEPT ![c] = "err"]
    /\ apc' = [apc EXCEPT ![c] = "idle"]
    /\ UNCHANGED <<merkle_tree, last_leaf, call, file, txs, log, lockOrder,
                   initTree, initLeaf, treeVars, batchVars, chainVars,
                   hashVars>>

\* App::insert_identity: signer.send_transaction(..).await is Ok
II_send_transaction(c) ==
    /\ apc[c] = "send"
    /\ txs' = Append(txs, call[c].commitment)
    /\ apc' = [apc EXCEPT ![c] = "receipt"]
    /\ UNCHANGED <<merkle_tree, last_leaf, tree_lock, call, outcome, file, log,
                   lockOrder, initTree, initLeaf, treeVars, batchVars,
                   chainVars, hashVars>>

\* App::insert_identity: signer.send_transaction(..).await is Err, and
\* unwrap() panics
II_send_transaction_err(c) ==
    /\ apc[c] = "send"
    /\ outcome' = [outcome EXCEPT ![c] = "panic"]
    /\ apc' = [apc EXCEPT ![c] = "idle"]
    /\ UNCHANGED <<merkle_tree, last_leaf, tree_lock, call, file, txs, log,
                   lockOrder, initTree, initLeaf, treeVars, batchVars,
                   chainVars, hashVars>>

\* App::insert_identity: pending_tx.await is Ok; Ok(Response) is returned
II_receipt(c) ==
    /\ apc[c] = "receipt"
    /\ outcome' = [outcome EXCEPT ![c] = "ok"]
    /\ apc' = [apc EXCEPT ![c] = "idle"]
    /\ UNCHANGED <<merkle_tree, last_leaf, tree_lock, call, file, txs, log,
                   lockOrder, initTree, initLeaf, treeVars, batchVars,
                   chainVars, hashVars>>

\* App::insert_identity: pending_tx.await is Err; `?` returns the error
II_receipt_err(c) ==
    /\ apc[c] = "receipt"
    /\ outcome' = [outcome EXCEPT ![c] = "err"]
    /\ apc' = [apc EXCEPT ![c] = "idle"]
    /\ UNCHANGED <<merkle_tree, last_leaf, tree_lock, call, file, txs, log,
                   lockOrder, initTree, initLeaf, treeVars, batchVars,
                   chainVars, hashVars>>

AppNext ==
    \/ \E c \in Callers, e \in Elems : II_lock(c, e)
    \/ \E c \in Callers : II_set(c)
    \/ \E c \in Callers, n \in Blocks : II_get_block_number(c, n)
    \/ \E c \in Callers : II_get_block_number_err(c)
    \/ \E c \in Callers : II_write_file(c)
    \/ \E c \in Callers : II_write_file_err(c)
    \/ \E c \in Callers : II_send_transaction(c)
    \/ \E c \in Callers : II_send_transaction_err(c)
    \/ \E c \in Callers : II_receipt(c)
    \/ \E c \in Callers : II_receipt_err(c)

\* ------------------------------------------------ App::inclusion_proof
\* MimcTree::position(commitment): Some(the first leaf that holds the
\* commitment) or None; an Option is a set of at most one value
position(tree, commitment) ==
    LET holders == {i \in Leaves : tree[i] = commitment}
    IN  IF holders = {} THEN {}
        ELSE {CHOOSE i \in holders : \A j \in holders : i <= j}

\* App::inclusion_proof: self.merkle_tree.read().await
IP_lock(c, commitment) ==
    /\ apc[c] = "idle"
    /\ can_read(tree_lock)
    /\ tree_lock' = [tree_lock EXCEPT !.readers = @ \cup {c}]
    /\ call' = [call EXCEPT ![c] = [NoCall EXCEPT !.commitment = commitment]]
    /\ outcome' = [outcome EXCEPT ![c] = "none"]
    /\ apc' = [apc EXCEPT ![c] = "position"]
    /\ UNCHANGED <<merkle_tree, last_leaf, file, txs, log, lockOrder, initTree,
                   initLeaf, treeVars, batchVars, chainVars, hashVars>>

\* App::inclusion_proof: position(commitment).map(proof), which is printed
\* and dropped; Ok(Response) is returned whatever it was, and the guard drops
IP_return(c) ==
    /\ apc[c] = "position"
    /\ LET proof == {TreeProof(merkle_tree, i) :
                        i \in position(merkle_tree, call[c].commitment)}
       IN  outcome' = [outcome EXCEPT ![c] = "ok"]
    /\ tree_lock' = [tree_lock EXCEPT !.readers = @ \ {c}]
    /\ apc' = [apc EXCEPT ![c] = "idle"]
    /\ UNCHANGED <<merkle_tree, last_leaf, call, file, txs, log, lockOrder,
                   initTree, initLeaf, treeVars, batchVars, chainVars,
                   hashVars>>

\* one task inserts and another asks for inclusion proofs
Inserters == {"c1"}
Provers == {"c2"}

InclusionNext ==
    \/ \E c \in Inserters, e \in Elems : II_lock(c, e)
    \/ \E c \in Inserters : II_set(c)
    \/ \E c \in Inserters, n \in Blocks : II_get_block_number(c, n)
    \/ \E c \in Inserters : II_get_block_number_err(c)
    \/ \E c \in Inserters : II_write_file(c)
    \/ \E c \in Inserters : II_write_file_err(c)
    \/ \E c \in Inserters : II_send_transaction(c)
    \/ \E c \in Inserters : II_send_transaction_err(c)
    \/ \E c \in Inserters : II_receipt(c)
    \/ \E c \in Inserters : II_receipt_err(c)
    \/ \E c \in Provers, e \in Elems : IP_lock(c, e)
    \/ \E c \in Provers : IP_return(c)

\* ---------------------------------------------- any task, any version
MaxVersions == 3
MaxChainUpdates == 2
MaxAnyUpdates == 1

ChainTasks == {"t1", "t2"}
ChainIds == 1 .. MaxVersions

Ops == {"peek_next_update", "apply_next_update", "update",
        "append_many_fresh", "next_version", "next_leaf", "get_proof"}
WriteOps == {"apply_next_update", "update", "append_many_fresh",
             "next_version"}

\* tokio's RwLock is fair: the tasks waiting for it are served in the order
\* they came, readers and writers alike
FreeRw == [writer |-> NoTask, readers |-> {}, queue |-> <<>>]

\* RwLock::read() / RwLock::write() is polled and has to wait
request(l, t, write) ==
    [l EXCEPT !.queue = Append(@, [task |-> t, write |-> write])]

\* the lock can be handed to task t: it is first in line and the lock is
\* free for what it asked
granted(l, t) ==
    /\ l.queue # <<>>
    /\ Head(l.queue).task = t
    /\ IF Head(l.queue).write THEN can_write(l) ELSE can_read(l)

\* the guard is handed to the first in line
acquire(l) ==
    LET first == Head(l.queue)
    IN  [l EXCEPT !.queue = Tail(@),
                  !.writer = IF first.write THEN first.task ELSE @,
                  !.readers = IF first.write THEN @ ELSE @ \cup {first.task}]

\* the guard of task t is leaked: the lock stays as it is
release_leaked(l, t) == l

\* the guard of task t drops
release(l, t) ==
    [l EXCEPT !.writer = IF @ = t THEN NoTask ELSE @, !.readers = @ \ {t}]

NoRet == [update |-> {}, next_leaf |-> 0, proof |-> NoProof]
IdleTask == [op |-> "none", at |-> "idle", v |-> 0, child |-> 0,
             updates |-> <<>>, leaf |-> 0, ret |-> NoRet]

\* what the chain's actions leave alone
chainFrame == <<phase, lock, pc, item, got, base, made, applied, seqApplied,
                assigned, budget, peeked, appVars, batchVars, hashVars>>

\* the version that is last in the chain
tip == Len(versions)

\* how many next_version calls are under way
branching == Cardinality({t \in ChainTasks : ctask[t].op = "next_version"
                                             /\ ctask[t].at # "idle"})

\* a chain of one version, as CanonicalTreeBuilder::seal returns it
ChainInit(b) ==
    /\ phase = "sealed"
    /\ versions = <<empty>>
    /\ lock = [v \in VersionIds |-> FreeLock]
    /\ pc = [t \in Tasks |-> "idle"]
    /\ item = [t \in Readers |-> NoItem]
    /\ got = [t \in Readers |-> NoProof]
    /\ base = empty
    /\ made = <<>>
    /\ applied = <<>>
    /\ seqApplied = 0
    /\ assigned = [v \in VersionIds |-> {}]
    /\ nSets = 0
    /\ budget = b
    /\ peeked = [t \in Reconcilers |-> NoPeek]
    /\ rw = [v \in ChainIds |-> FreeRw]
    /\ ctask = [t \in ChainTasks |-> IdleTask]
    /\ madeOn = [v \in ChainIds |-> <<>>]
    /\ appliedTo = [v \in ChainIds |-> <<>>]
    /\ tipOnly = TRUE

\* a task calls an operation of TreeVersion on version v: self.0.read() or
\* self.0.write() is polled
Ch_call(t, op, v, updates, leaf) ==
    /\ ctask[t].at = "idle"
    /\ v \in 1 .. Len(versions)
    /\ op = "update" => Len(updates) = 1
    /\ op \notin {"update", "append_many_fresh"} => updates = <<>>
    /\ op # "get_proof" => leaf = 0
    /\ op = "next_version" => Len(versions) + branching < MaxVersions
    /\ nSets + Len(updates) <= budget
    /\ nSets' = nSets + Len(updates)
    /\ rw' = [rw EXCEPT ![v] = request(@, t, op \in WriteOps)]
    /\ ctask' = [ctask EXCEPT ![t] =
                    [IdleTask EXCEPT !.op = op, !.at = "wait", !.v = v,
                                     !.updates = updates, !.leaf = leaf]]
    /\ UNCHANGED <<versions, madeOn, appliedTo, tipOnly, chainFrame>>

\* TreeVersion::update: self.0.write().await returns the guard, the update is
\* made and the guard drops
Ch_update(t) ==
    /\ ctask[t].at = "wait"
    /\ ctask[t].op = "update"
    /\ granted(rw[ctask[t].v], t)
    /\ LET v == ctask[t].v
           u == ctask[t].updates[1]
       IN  /\ versions' = [versions EXCEPT
                              ![v] = update(@, u.leaf_index, u.element)]
           /\ madeOn' = [madeOn EXCEPT ![v] = Append(@, u)]
           /\ rw' = [rw EXCEPT ![v] = release(acquire(@), t)]
    /\ ctask' = [ctask EXCEPT ![t].at = "idle"]
    /\ tipOnly' = (tipOnly /\ ctask[t].v = tip)
    /\ UNCHANGED <<nSets, appliedTo, chainFrame>>

\* TreeVersion::append_many_fresh: self.0.write().await returns the guard,
\* the batch is appended and the guard drops
Ch_append_many_fresh(t) ==
    /\ ctask[t].at = "wait"
    /\ ctask[t].op = "append_many_fresh"
    /\ granted(rw[ctask[t].v], t)
    /\ LET v == ctask[t].v
           data == append_many_fresh(versions[v], ctask[t].updates)
       IN  /\ versions' = [versions EXCEPT ![v] = data]
           /\ madeOn' = [madeOn EXCEPT ![v] =
                 @ \o SubSeq(data.diff, Len(versions[v].diff) + 1,
                             Len(data.diff))]
           /\ rw' = [rw EXCEPT ![v] = release(acquire(@), t)]
    /\ ctask' = [ctask EXCEPT ![t].at = "idle"]
    /\ tipOnly' = (tipOnly /\ ctask[t].v = tip)
    /\ UNCHANGED <<nSets, appliedTo, chainFrame>>

\* TreeVersion::next_version: self.0.write().await returns the guard, the
\* new version is made the last of `versions` and self.next, and the guard
\* drops
Ch_next_version(t) ==
    /\ ctask[t].at = "wait"
    /\ ctask[t].op = "next_version"
    /\ granted(rw[ctask[t].v], t)
    /\ LET v == ctask[t].v
       IN  /\ versions' = Append([versions EXCEPT ![v].next = tip + 1],
                                 branch(versions[v]))
           /\ rw' = [rw EXCEPT ![v] = release(acquire(@), t)]
    /\ ctask' = [ctask EXCEPT ![t].at = "idle"]
    /\ tipOnly' = (tipOnly /\ ctask[t].v = tip)
    /\ UNCHANGED <<nSets, madeOn, appliedTo, chainFrame>>

\* TreeVersion::next_leaf: self.0.read().await returns the guard, the counter
\* is read and the guard drops
Ch_next_leaf(t) ==
    /\ ctask[t].at = "wait"
    /\ ctask[t].op = "next_leaf"
    /\ granted(rw[ctask[t].v], t)
    /\ LET v == ctask[t].v
       IN  /\ ctask' = [ctask EXCEPT
                 ![t].at = "idle",
                 ![t].ret.next_leaf = versions[v].next_leaf]
           /\ rw' = [rw EXCEPT ![v] = release(acquire(@), t)]
    /\ UNCHANGED <<versions, nSets, madeOn, appliedTo, tipOnly, chainFrame>>

\* TreeVersion::get_proof: self.0.read().await returns the guard, the root
\* and the path are read and the guard drops
Ch_get_proof(t) ==
    /\ ctask[t].at = "wait"
    /\ ctask[t].op = "get_proof"
    /\ granted(rw[ctask[t].v], t)
    /\ LET v == ctask[t].v
       IN  /\ ctask' = [ctask EXCEPT
                 ![t].at = "idle",
                 ![t].ret.proof =
                     [root |-> TreeRoot(versions[v].tree),
                      proof |-> TreeProof(versions[v].tree, ctask[t].leaf)]]
           /\ rw' = [rw EXCEPT ![v] = release(acquire(@), t)]
    /\ UNCHANGED <<versions, nSets, madeOn, appliedTo, tipOnly, chainFrame>>

\* TreeVersion::peek_next_update / apply_next_update: self.0.read().await
\* or self.0.write().await returns the guard, self.next is None and the
\* guard drops
Ch_no_next(t) ==
    /\ ctask[t].at = "wait"
    /\ ctask[t].op \in {"peek_next_update", "apply_next_update"}
    /\ granted(rw[ctask[t].v], t)
    /\ versions[ctask[t].v].next = None
    /\ rw' = [rw EXCEPT ![ctask[t].v] = release(acquire(@), t)]
    /\ ctask' = [ctask EXCEPT ![t].at = "idle"]
    /\ UNCHANGED <<versions, nSets, madeOn, appliedTo, tipOnly, chainFrame>>

\* TreeVersion::peek_next_update / apply_next_update: self.0.read().await
\* or self.0.write().await returns the guard, and next.0.read() or
\* next.0.write() is polled with the guard of self held
Ch_call_next(t) ==
    /\ ctask[t].at = "wait"
    /\ ctask[t].op \in {"peek_next_update", "apply_next_update"}
    /\ granted(rw[ctask[t].v], t)
    /\ versions[ctask[t].v].next # None
    /\ LET next == versions[ctask[t].v].next
       IN  /\ rw' = [rw EXCEPT
                 ![ctask[t].v] = acquire(@),
                 ![next] = request(@, t, ctask[t].op = "apply_next_update")]
           /\ ctask' = [ctask EXCEPT ![t].at = "wait_child",
                                     ![t].child = next]
    /\ UNCHANGED <<versions, nSets, madeOn, appliedTo, tipOnly, chainFrame>>

\* TreeVersionData::peek_next_update: next.0.read().await returns the guard,
\* the first of next.diff is read and both guards drop
Ch_peek_next_update(t) ==
    /\ ctask[t].at = "wait_child"
    /\ ctask[t].op = "peek_next_update"
    /\ granted(rw[ctask[t].child], t)
    /\ LET v == ctask[t].v
           next == ctask[t].child
           diff == versions[next].diff
       IN  /\ ctask' = [ctask EXCEPT
                 ![t].at = "idle",
                 ![t].ret.update =
                     IF diff = <<>> THEN {} ELSE {diff_first(diff)}]
           /\ rw' = [rw EXCEPT ![v] = release(@, t),
                               ![next] = release(acquire(@), t)]
    /\ UNCHANGED <<versions, nSets, madeOn, appliedTo, tipOnly, chainFrame>>

\* TreeVersionData::apply_next_update: next.0.write().await returns the
\* guard, the first of next.diff, if any, is applied to self by self.update
\* and removed from next.diff, and both guards drop
Ch_apply_next_update(t) ==
    /\ ctask[t].at = "wait_child"
    /\ ctask[t].op = "apply_next_update"
    /\ granted(rw[ctask[t].child], t)
    /\ LET v == ctask[t].v
           next == ctask[t].child
           diff == versions[next].diff
       IN  /\ IF diff # <<>>
              THEN LET u == diff_first(diff)
                   IN  /\ versions' = [versions EXCEPT
                             ![v] = update(@, u.leaf_index, u.element),
                             ![next].diff = diff_remove0(diff)]
                       /\ appliedTo' = [appliedTo EXCEPT ![v] = Append(@, u)]
              ELSE UNCHANGED <<versions, appliedTo>>
           /\ rw' = [rw EXCEPT ![v] = release(@, t),
                               ![next] = release(acquire(@), t)]
    /\ ctask' = [ctask EXCEPT ![t].at = "idle"]
    /\ UNCHANGED <<nSets, madeOn, tipOnly, chainFrame>>

\* the updates the chain's tasks make: either commitment, at the first or
\* at the last leaf
ChainUpdates == {TreeUpdate(i, e) : i \in {0, Capacity - 1}, e \in Elems}

\* the arguments of a call of `op`
UpdatesOf(op) ==
    IF op = "update" THEN {<<u>> : u \in ChainUpdates}
    ELSE IF op = "append_many_fresh" THEN {<<TreeUpdate(0, 1)>>}
    ELSE {<<>>}
LeavesOf(op) == IF op = "get_proof" THEN {0, Capacity - 1} ELSE {0}

\* every task may call every operation, on a chain with little in it
AnyNext ==
    \/ \E t \in ChainTasks, v \in ChainIds, op \in Ops :
          \E updates \in UpdatesOf(op) \cap {<<>>, <<TreeUpdate(0, 1)>>} :
              \E leaf \in LeavesOf(op) : Ch_call(t, op, v, updates, leaf)
    \/ \E t \in ChainTasks : Ch_update(t)
    \/ \E t \in ChainTasks : Ch_append_many_fresh(t)
    \/ \E t \in ChainTasks : Ch_next_version(t)
    \/ \E t \in ChainTasks : Ch_next_leaf(t)
    \/ \E t \in ChainTasks : Ch_get_proof(t)
    \/ \E t \in ChainTasks : Ch_no_next(t)
    \/ \E t \in ChainTasks : Ch_call_next(t)
    \/ \E t \in ChainTasks : Ch_peek_next_update(t)
    \/ \E t \in ChainTasks : Ch_apply_next_update(t)

\* one task updates and branches the last version of the chain, the other
\* drives the reconciliation of every version
ChainWriter == "t1"
ChainDriver == "t2"

ChainNext ==
    \/ \E op \in {"update", "next_version"} :
          \E updates \in UpdatesOf(op) :
              Ch_call(ChainWriter, op, tip, updates, 0)
    \/ \E v \in ChainIds, op \in {"peek_next_update", "apply_next_update"} :
          Ch_call(ChainDriver, op, v, <<>>, 0)
    \/ \E t \in ChainTasks : Ch_update(t)
    \/ \E t \in ChainTasks : Ch_next_version(t)
    \/ \E t \in ChainTasks : Ch_no_next(t)
    \/ \E t \in ChainTasks : Ch_call_next(t)
    \/ \E t \in ChainTasks : Ch_peek_next_update(t)
    \/ \E t \in ChainTasks : Ch_apply_next_update(t)

\* ----------------------------------------------------- the sponge hash
\* The field and the machine word are scaled down: a word has WordBits bits
\* where U256 has 256, and MODULUS stays below a quarter of the word range,
\* as the field's modulus does.
Word == 2 ^ WordBits
Words == 0 .. (Word - 1)

\* const NUM_ROUNDS
NUM_ROUNDS == 220

\* static MODULUS
MODULUS == 2 ^ (WordBits - 2) - 1

\* U256 + U256, which wraps at the word size
add(a, b) == (a + b) % Word

\* U256 % U256
rem(a, m) == a % m

\* a product reduced only after it has wrapped at the word size
mulmod_wrapped(a, b, m) == ((a * b) % Word) % m

\* U256::mulmod(a, b, m): the full product, reduced
mulmod(a, b, m) == (a * b) % m

\* keccak256 on the bytes of a word, an arbitrary function: one of these
Keccaks == {[x \in Words |-> (m * x + k) % Word] : m \in {5, 13}, k \in {3, 11}}

\* keccak256(SEED.as_bytes()) under `keccak`
SEED == 0

\* hash has not yet been used
HashIdle ==
    mimc = [phase |-> "off", keccak |-> <<>>, bytes |-> 0, constants |-> <<>>,
            i |-> 0, left |-> 0, right |-> 0, result |-> <<>>]

\* the first use of ROUND_CONSTANTS: result = [U256::ZERO; NUM_ROUNDS] and
\* bytes = keccak256(SEED.as_bytes())
HashInit ==
    \E keccak \in Keccaks :
        mimc = [phase |-> "constants", keccak |-> keccak,
                bytes |-> keccak[SEED],
                constants |-> [i \in 0 .. (NUM_ROUNDS - 1) |-> 0],
                i |-> 1, left |-> 0, right |-> 0, result |-> <<>>]

\* ROUND_CONSTANTS: one turn of the loop over result[1..NUM_ROUNDS - 1]
RC_constant ==
    /\ mimc.phase = "constants"
    /\ mimc.i < NUM_ROUNDS - 1
    /\ LET bytes == mimc.keccak[mimc.bytes]
       IN  mimc' = [mimc EXCEPT !.bytes = bytes,
                                !.constants[mimc.i] = rem(bytes, MODULUS),
                                !.i = mimc.i + 1]
    /\ UNCHANGED <<treeVars, appVars, batchVars, chainVars>>

\* ROUND_CONSTANTS: the loop is over and the table is set for good
RC_result ==
    /\ mimc.phase = "constants"
    /\ mimc.i = NUM_ROUNDS - 1
    /\ mimc' = [mimc EXCEPT !.phase = "ready", !.i = 0]
    /\ UNCHANGED <<treeVars, appVars, batchVars, chainVars>>

\* a caller calls hash(left, right)
H_call(left, right) ==
    /\ mimc.phase = "ready"
    /\ mimc' = [mimc EXCEPT !.phase = "called", !.left = left,
                            !.right = right]
    /\ UNCHANGED <<treeVars, appVars, batchVars, chainVars>>

\* hash: let mut left = left % MODULUS; let mut right = right % MODULUS
H_reduce ==
    /\ mimc.phase = "called"
    /\ mimc' = [mimc EXCEPT !.phase = "rounds", !.i = 0,
                            !.left = rem(mimc.left, MODULUS),
                            !.right = rem(mimc.right, MODULUS)]
    /\ UNCHANGED <<treeVars, appVars, batchVars, chainVars>>

\* hash: one turn of the loop over ROUND_CONSTANTS
H_round ==
    /\ mimc.phase = "rounds"
    /\ mimc.i < NUM_ROUNDS
    /\ LET round_constant == mimc.constants[mimc.i]
           t == rem(add(mimc.left, round_constant), MODULUS)
           t2 == mulmod(t, t, MODULUS)
           t4 == mulmod(t2, t2, MODULUS)
           t5 == mulmod(t, t4, MODULUS)
           temp == rem(add(mimc.right, t5), MODULUS)
       IN  IF mimc.i = NUM_ROUNDS - 1
           THEN mimc' = [mimc EXCEPT !.right = temp, !.i = mimc.i + 1]
           ELSE mimc' = [mimc EXCEPT !.right = mimc.left, !.left = temp,
                                     !.i = mimc.i + 1]
    /\ UNCHANGED <<treeVars, appVars, batchVars, chainVars>>

\* hash: the loop is over and (left, right) is returned
H_return ==
    /\ mimc.phase = "rounds"
    /\ mimc.i = NUM_ROUNDS
    /\ mimc' = [mimc EXCEPT !.phase = "returned",
                            !.result = <<mimc.left, mimc.right>>]
    /\ UNCHANGED <<treeVars, appVars, batchVars, chainVars>>

HashNext ==
    \/ RC_constant
    \/ RC_result
    \/ \E left \in Words, right \in Words : H_call(left, right)
    \/ H_reduce
    \/ H_round
    \/ H_return

\* ------------------------------- append_many_fresh, called on its own
BatchIdle ==
    /\ bphase = "prepare"
    /\ bdata = empty
    /\ bother = empty
    /\ batch = <<>>
    /\ bperm = <<>>
    /\ bfirst = empty
    /\ bpermDone = FALSE

\* q holds the updates of b, in any order
IsReordering(b, q) ==
    /\ Len(q) = Len(b)
    /\ \E f \in Permutations(1 .. Len(b)) :
          \A k \in 1 .. Len(b) : q[k] = b[f[k]]

\* TreeVersion::update, before the batch: the version comes to some state
B_update(u) ==
    /\ bphase = "prepare"
    /\ Len(bdata.diff) < MaxUpdates
    /\ bdata' = update(bdata, u.leaf_index, u.element)
    /\ UNCHANGED <<bphase, bother, batch, bperm, bfirst, bpermDone, treeVars,
                   appVars, chainVars, hashVars>>

\* the caller's batch, and the same updates in another order for a copy of
\* the version
B_pick(b, q) ==
    /\ bphase = "prepare"
    /\ IsReordering(b, q)
    /\ batch' = b
    /\ bperm' = q
    /\ bother' = bdata
    /\ bphase' = "picked"
    /\ UNCHANGED <<bdata, bfirst, bpermDone, treeVars, appVars, chainVars,
                   hashVars>>

\* TreeVersion::append_many_fresh(batch), the first time
B_append_many_fresh ==
    /\ bphase = "picked"
    /\ bdata' = append_many_fresh(bdata, batch)
    /\ bfirst' = bdata'
    /\ bphase' = "once"
    /\ UNCHANGED <<bother, batch, bperm, bpermDone, treeVars, appVars,
                   chainVars, hashVars>>

\* TreeVersion::append_many_fresh(batch), the second time
B_append_many_fresh_again ==
    /\ bphase = "once"
    /\ bdata' = append_many_fresh(bdata, batch)
    /\ bphase' = "twice"
    /\ UNCHANGED <<bother, batch, bperm, bfirst, bpermDone, treeVars, appVars,
                   chainVars, hashVars>>

\* TreeVersion::append_many_fresh(bperm) on the copy
B_append_many_fresh_reordered ==
    /\ bphase # "prepare"
    /\ ~bpermDone
    /\ bother' = append_many_fresh(bother, bperm)
    /\ bpermDone' = TRUE
    /\ UNCHANGED <<bphase, bdata, batch, bperm, bfirst, treeVars, appVars,
                   chainVars, hashVars>>

BatchNext ==
    \/ \E u \in Updates : B_update(u)
    \/ \E b \in Batches, q \in Batches : B_pick(b, q)
    \/ B_append_many_fresh
    \/ B_append_many_fresh_again
    \/ B_append_many_fresh_reordered

\* ---------------------------------- inserts at the next free leaf, replayed
\* the caller of update inserts at latest's next_leaf, while a leaf is free
Ins_update_lock(t) ==
    /\ phase = "run"
    /\ versions[latest].next_leaf \in Leaves
    /\ TV_update_lock(t)

\* TreeVersion::update(next_leaf, element)
Ins_update(t, e) ==
    TV_update(t, TreeUpdate(versions[latest].next_leaf, e))

LiveNext ==
    \/ \E u \in Updates : CTB_append(u)
    \/ CTB_seal
    \/ TV_next_version
    \/ \E t \in Writers : Ins_update_lock(t)
    \/ \E t \in Writers, e \in Elems : Ins_update(t, e)
    \/ \E t \in Reconcilers : TV_apply_next_update_lock(t)
    \/ \E t \in Reconcilers : TVD_apply_next_update_none(t)
    \/ \E t \in Reconcilers : TVD_apply_next_update_lock(t)
    \/ \E t \in Reconcilers : TVD_apply_next_update(t)

\* ------------------------------------------------- the specifications
vars == <<treeVars, appVars, batchVars, chainVars, hashVars>>

\* no peek_next_update was made, and no chain is run
ChainIdle ==
    /\ peeked = [t \in Reconcilers |-> NoPeek]
    /\ rw = <<>>
    /\ ctask = <<>>
    /\ madeOn = <<>>
    /\ appliedTo = <<>>
    /\ tipOnly = TRUE

\* builder, branch, writers on latest and the reconciler on mined
Init == TreeInit(MaxUpdates) /\ AppIdle /\ BatchIdle /\ ChainIdle /\ HashIdle
Next == TreeNext
Spec == Init /\ [][Next]_vars

\* the same with readers calling get_proof
ProofInit == TreeInit(MaxProofUpdates) /\ AppIdle /\ BatchIdle /\ ChainIdle /\ HashIdle
ProofSpec == ProofInit /\ [][ProofNext]_vars

\* the same with a reconciler that also calls peek_next_update
PeekInit ==
    TreeInit(MaxProofUpdates) /\ AppIdle /\ BatchIdle /\ ChainIdle /\ HashIdle
PeekSpec == PeekInit /\ [][PeekNext]_vars

\* concurrent insert_identity calls on one App
AppSpecInit == TreeInit(0) /\ AppInit /\ BatchIdle /\ ChainIdle /\ HashIdle
AppSpec == AppSpecInit /\ [][AppNext]_vars

\* one task: some updates, then a batch appended twice, and reordered
BatchInit == TreeInit(0) /\ AppIdle /\ BatchIdle /\ ChainIdle /\ HashIdle
BatchSpec == BatchInit /\ [][BatchNext]_vars

\* inserts at consecutive leaves, with a reconciler that keeps running: a
\* task that holds a lock goes on to release it (update awaits nothing once
\* it has the lock), and the reconciliation driver calls apply_next_update
\* again and again
LiveInit == TreeInit(MaxUpdates) /\ AppIdle /\ BatchIdle /\ ChainIdle /\ HashIdle
LiveSpec ==
    /\ LiveInit
    /\ [][LiveNext]_vars
    /\ WF_vars(\E t \in Writers, e \in Elems : Ins_update(t, e))
    /\ \A t \in Reconcilers :
          /\ WF_vars(TV_apply_next_update_lock(t))
          /\ WF_vars(TVD_apply_next_update_none(t))
          /\ WF_vars(TVD_apply_next_update_lock(t))
          /\ WF_vars(TVD_apply_next_update(t))

\* tasks calling the operations of TreeVersion on the versions of a chain
ChainSpecInit ==
    ChainInit(MaxChainUpdates) /\ AppIdle /\ BatchIdle /\ HashIdle
ChainSpec == ChainSpecInit /\ [][ChainNext]_vars

\* every task calling any operation on any version: a call that has the
\* lock it waited for goes on (the bodies await nothing but locks), and the
\* lock serves its queue in order
AnySpecInit == ChainInit(MaxAnyUpdates) /\ AppIdle /\ BatchIdle /\ HashIdle
AnySpec ==
    /\ AnySpecInit
    /\ [][AnyNext]_vars
    /\ \A t \in ChainTasks :
          /\ WF_vars(Ch_update(t))
          /\ WF_vars(Ch_append_many_fresh(t))
          /\ WF_vars(Ch_next_version(t))
          /\ WF_vars(Ch_next_leaf(t))
          /\ WF_vars(Ch_get_proof(t))
          /\ WF_vars(Ch_no_next(t))
          /\ WF_vars(Ch_call_next(t))
          /\ WF_vars(Ch_peek_next_update(t))
          /\ WF_vars(Ch_apply_next_update(t))

\* evaluations of hash
HashSpecInit == TreeInit(0) /\ AppIdle /\ BatchIdle /\ ChainIdle /\ HashInit
HashSpec == HashSpecInit /\ [][HashNext]_vars

\* insert_identity and inclusion_proof on one App
InclusionSpec == AppSpecInit /\ [][InclusionNext]_vars

\* ============================================================ the claims

RECURSIVE ApplyAll(_, _)
\* the updates of `updates` made one after the other, directly, on `data`
ApplyAll(data, updates) ==
    IF updates = <<>> THEN data
    ELSE ApplyAll(update(data, Head(updates).leaf_index,
                         Head(updates).element), Tail(updates))

ReconcilersIdle == \A t \in Reconcilers : pc[t] = "idle"

\* C1: latest = mined.next_version(), then n updates on latest, then n calls
\* of apply_next_update on mined: mined's leaves, root and next_leaf are
\* those of the n updates made directly on mined's data as it was at the
\* branch, and latest's diff is empty.
C1_ReplayEqualsDirect ==
    (phase = "run" /\ ReconcilersIdle /\ seqApplied = Len(made)) =>
        LET direct == ApplyAll(base, made)
        IN  /\ versions[mined].tree = direct.tree
            /\ TreeRoot(versions[mined].tree) = TreeRoot(direct.tree)
            /\ versions[mined].next_leaf = direct.next_leaf
            /\ versions[latest].diff = <<>>

\* two different updates were made, then both were replayed
C1_Witness ==
    /\ phase = "run" /\ ReconcilersIdle
    /\ seqApplied = Len(made) /\ Len(made) >= 2
    /\ made[1] # made[2]
    /\ versions[mined].tree # base.tree

\* C2: every leaf below mined.next_leaf is the same in mined and in latest.
C2_MinedPrefixEqualsLatest ==
    phase = "run" =>
        \A i \in Leaves :
            i < versions[mined].next_leaf =>
                versions[mined].tree[i] = versions[latest].tree[i]

\* C3: mined.next_leaf <= latest.next_leaf.
C3_MinedNotAhead ==
    phase = "run" => versions[mined].next_leaf <= versions[latest].next_leaf

\* C4: the updates applied to mined so far, followed by what is left of
\* latest's diff, are the updates made on latest since the branch, in order.
C4_NoLossNoDuplicate ==
    phase = "run" => applied \o versions[latest].diff = made

\* an update was made after the reconciler had started, one update is
\* applied and another still pending
C4_Witness ==
    /\ phase = "run"
    /\ seqApplied = Off
    /\ applied # <<>>
    /\ versions[latest].diff # <<>>
    /\ applied[1] # versions[latest].diff[1]

RECURSIVE PathRoot(_, _, _)
\* the root a sibling path yields from a leaf value: the path's hashes
\* recombined from level `l` upwards
PathRoot(node, proof, l) ==
    IF l > Len(proof) THEN node
    ELSE PathRoot(IF proof[l].side = "R"
                  THEN HashNode(node, proof[l].sibling)
                  ELSE HashNode(proof[l].sibling, node),
                  proof, l + 1)

\* a step of get_proof
ProofStep == \E t \in Readers : pc'[t] # pc[t]

\* what get_proof is about to return is the root and the path of the version
\* the status selects, as it is now, and the path recombines to the root
C5_ProofRead ==
    \A t \in Readers :
        pc[t] = "proof_read" =>
            LET v == IF item[t].status = "Pending" THEN latest ELSE mined
                tree == versions[v].tree
            IN  /\ got[t].root = TreeRoot(tree)
                /\ got[t].proof = TreeProof(tree, item[t].leaf_index)
                /\ PathRoot(tree[item[t].leaf_index], got[t].proof, 1)
                     = got[t].root

\* C5: get_proof reads latest for Pending and mined for Mined, its root and
\* its path come from one state of that tree whatever the writers and the
\* reconciler do meanwhile, and no step of it changes any version.
C5_ProofConsistent ==
    /\ []C5_ProofRead
    /\ [][ProofStep => versions' = versions]_vars

\* a proof was read from mined while mined is part of the way to latest
C5_Witness ==
    \E t \in Readers :
        /\ pc[t] = "proof_read"
        /\ item[t].status = "Mined"
        /\ versions[mined].tree # versions[latest].tree
        /\ applied # <<>>
        /\ versions[latest].diff # <<>>

\* C9: next_leaf is the number of leaves set and the first free index: the
\* leaves set are exactly those below it.
C9_NextLeafIsCount ==
    \A v \in 1 .. Len(versions) :
        /\ versions[v].next_leaf = Cardinality(assigned[v])
        /\ assigned[v] = 0 .. (versions[v].next_leaf - 1)

\* C6: a second append_many_fresh of the same batch leaves next_leaf and
\* every leaf as the first call left them.
C6_AppendTwiceSame ==
    bphase = "twice" =>
        /\ bdata.next_leaf = bfirst.next_leaf
        /\ bdata.tree = bfirst.tree

\* mined has caught up with latest and nothing is left to replay
Converged ==
    /\ phase = "run"
    /\ versions[latest].diff = <<>>
    /\ versions[mined].next_leaf = versions[latest].next_leaf
    /\ TreeRoot(versions[mined].tree) = TreeRoot(versions[latest].tree)

\* C7: once latest has branched from mined, with inserts at consecutive
\* leaves that stop and a reconciler that keeps calling apply_next_update,
\* latest's diff ends up empty and mined ends up with latest's next_leaf and
\* root, and stays so.
C7_EventuallyConverged == <>(phase = "run") => <>[]Converged

\* all that may be inserted was inserted and replayed
C7_Witness ==
    /\ Converged
    /\ Len(applied) >= 2
    /\ versions[mined].next_leaf = base.next_leaf + Len(made)

\* C8: the k-th call to get the tree lock is assigned leaf initLeaf + k - 1,
\* the counter has moved by one for each, the leaf still holds that call's
\* commitment and the leaves App::new had set are as they were.
C8_DenseUniqueIndices ==
    /\ last_leaf = initLeaf + Len(log)
    /\ Len(log) <= Len(lockOrder)
    /\ \A k \in 1 .. Len(log) :
          /\ log[k].index = initLeaf + k - 1
          /\ log[k].caller = lockOrder[k]
          /\ log[k].index \in Leaves =>
                merkle_tree[log[k].index] = log[k].commitment
    /\ \A j, k \in 1 .. Len(log) : j # k => log[j].index # log[k].index
    /\ \A i \in Leaves : i < initLeaf => merkle_tree[i] = initTree[i]

\* three calls were assigned leaves above a non-zero initial leaf, by more
\* than one caller, and a call is still talking to the ledger
C8_Witness ==
    /\ Len(log) = 3
    /\ initLeaf > 0
    /\ log[1].caller # log[2].caller
    /\ \E c \in Callers : apc[c] \in {"send", "receipt"}
    /\ \E c \in Callers : outcome[c] \in {"err", "panic"}

\* C10: append_many_fresh of the same updates in another order leaves the
\* same leaves and the same next_leaf.
C10_OrderIrrelevant ==
    (bphase \in {"once", "twice"} /\ bpermDone) =>
        /\ bfirst.tree = bother.tree
        /\ bfirst.next_leaf = bother.next_leaf

\* the steps of insert_identity that wait on the ledger
LedgerSteps == {"block_number", "send", "receipt"}

\* C11: a call of insert_identity that ends at a ledger step without the
\* step's answer ends with an error result for its caller, never a panic.
C11_LedgerFailureIsError ==
    [][\A c \in Callers :
          (apc[c] \in LedgerSteps /\ apc'[c] = "idle" /\ outcome'[c] # "ok")
              => outcome'[c] = "err"]_vars

\* C12: an inclusion_proof call for a commitment that no leaf holds ends
\* with a not-found outcome, never with a success response.
C12_MissingIsNotFound ==
    [][\A c \in Provers :
          (/\ apc[c] = "position" /\ apc'[c] = "idle"
           /\ position(merkle_tree, call[c].commitment) = {})
              => outcome'[c] = "not_found"]_vars

\* C13: hash(left, right) is both inputs reduced mod p and then 220 rounds
\* with c_0 = c_219 = 0, each round computing new_val = (R + (L + c_i)^5)
\* mod p and making the state (new_val, L), but the last (i = 219), which
\* replaces only the right component; both output components lie in [0, p).
C13_HashIsRounds ==
    [][/\ (mimc.phase = "called" /\ mimc'.phase = "rounds") =>
              /\ mimc'.i = 0
              /\ mimc'.left = mimc.left % MODULUS
              /\ mimc'.right = mimc.right % MODULUS
       /\ (mimc.phase = "rounds" /\ mimc'.phase = "rounds") =>
              LET new_val == (mimc.right
                                + (mimc.left + mimc.constants[mimc.i]) ^ 5)
                                    % MODULUS
              IN  /\ mimc.i <= 219
                  /\ mimc'.i = mimc.i + 1
                  /\ mimc'.constants = mimc.constants
                  /\ <<mimc'.left, mimc'.right>> =
                        IF mimc.i = 219 THEN <<mimc.left, new_val>>
                        ELSE <<new_val, mimc.left>>
       /\ mimc'.phase = "returned" =>
              /\ mimc.i = 220
              /\ mimc.constants[0] = 0 /\ mimc.constants[219] = 0
              /\ mimc'.result = <<mimc.left, mimc.right>>
              /\ mimc'.result[1] \in 0 .. (MODULUS - 1)
              /\ mimc'.result[2] \in 0 .. (MODULUS - 1)]_vars

\* hash has returned two different words under constants that differ
C13_Witness ==
    /\ mimc.phase = "returned"
    /\ mimc.result[1] # mimc.result[2]
    /\ mimc.result[1] # 0 /\ mimc.result[2] # 0
    /\ mimc.constants[1] # mimc.constants[2]

\* a step of task t's peek_next_update
PeekStep(t) ==
    /\ pc'[t] # pc[t]
    /\ pc[t] \in {"peek", "peek_child"} \/ pc'[t] = "peek"

\* C19: with one driver, peek_next_update changes no version, returns the
\* oldest entry of the child's diff (none without a child or with an empty
\* diff), and the update it returned is the one the driver's next
\* apply_next_update applies, whatever was written to the child in between.
C19_PeekIsNextApplied ==
    [][\A t \in Reconcilers :
          /\ PeekStep(t) => versions' = versions
          /\ (PeekStep(t) /\ pc'[t] = "idle") =>
                LET next == versions[mined].next
                IN  peeked'[t].ret =
                       IF next = None \/ versions[next].diff = <<>>
                       THEN {} ELSE {versions[next].diff[1]}
          /\ (/\ applied' # applied
              /\ peeked[t].ret # {}
              /\ peeked[t].seen = Len(applied)) =>
                applied' \in {Append(applied, u) : u \in peeked[t].ret}]_vars

\* the peeked update was applied after another update was made on the child
C19_Witness ==
    /\ phase = "run"
    /\ \E t \in Reconcilers :
          /\ peeked[t].ret # {}
          /\ peeked[t].seen = 1
          /\ Len(applied) = 2
          /\ applied[2] \in peeked[t].ret
          /\ applied[2] # applied[1]
    /\ Len(made) = 2

\* task t holds the lock of version v, for writing or for reading
holds(t, v) == lock[v].writer = t \/ t \in lock[v].readers

\* C15: peek_next_update and apply_next_update never hold the parent's lock
\* and the child's lock at the same time.
C15_NeverBothLocks ==
    \A t \in Reconcilers : ~(holds(t, mined) /\ holds(t, latest))

\* C16: no call of insert_identity holds the tree write lock while one of
\* its calls to the ledger is in progress.
C16_NoLockOverLedger ==
    \A c \in Callers : apc[c] \in LedgerSteps => tree_lock.writer # c

\* a step that ends task t's apply_next_update
ApplyReturn(t) == pc[t] \in {"apply", "apply_child"} /\ pc'[t] = "idle"

\* C17: apply_next_update removes exactly the first entry of the child's
\* diff, sets that leaf and next_leaf in the calling version and leaves the
\* calling version's own diff as it was; without a child, or with an empty
\* child diff, it changes nothing.
C17_ApplyIsDiffFree ==
    [][\A t \in Reconcilers :
          ApplyReturn(t) =>
              LET next == versions[mined].next
              IN  IF next = None \/ versions[next].diff = <<>>
                  THEN versions' = versions
                  ELSE LET u == versions[next].diff[1]
                       IN  /\ versions'[next] =
                                 [versions[next] EXCEPT !.diff = Tail(@)]
                           /\ versions'[mined].tree =
                                 [versions[mined].tree EXCEPT
                                     ![u.leaf_index] = u.element]
                           /\ versions'[mined].next_leaf = u.leaf_index + 1
                           /\ versions'[mined].next = versions[mined].next
                           /\ versions'[mined].diff = versions[mined].diff]_vars

\* task t holds the lock of version v of the chain
holds_rw(t, v) == rw[v].writer = t \/ t \in rw[v].readers

\* C14: every operation a task has started on a version of the chain gets
\* the locks it waits for and completes, so no state is a deadlock; a task
\* that holds a lock and waits for another holds the parent and waits for
\* its child, never the reverse.
C14_EveryCallCompletes ==
    /\ \A t \in ChainTasks : (ctask[t].at # "idle") ~> (ctask[t].at = "idle")
    /\ [](\A t \in ChainTasks :
             ctask[t].at = "wait_child" =>
                 /\ ctask[t].child = versions[ctask[t].v].next
                 /\ ctask[t].child > ctask[t].v
                 /\ holds_rw(t, ctask[t].v))

\* one task holds a version and waits for its child, which the other task
\* holds while it waits for the child of that
C14_Witness ==
    \E t, o \in ChainTasks :
        /\ t # o
        /\ ctask[t].at = "wait_child"
        /\ ctask[o].at = "wait_child"
        /\ ctask[o].v = ctask[t].child
        /\ holds_rw(o, ctask[t].child)

\* task t's call of `op` completes in this step
Completes(t, op) ==
    ctask[t].op = op /\ ctask[t].at # "idle" /\ ctask'[t].at = "idle"

\* C18: next_version makes a child with the parent's leaves and next_leaf
\* of that moment, an empty diff and no child, and records it as the
\* parent's child; an update or append_many_fresh on a version changes no
\* other version, so the parent keeps its leaves, root and next_leaf until
\* it is written or apply_next_update is called on it; and no write to a
\* version, apply_next_update included, changes another version's tree.
C18_BranchIsolated ==
    [][\A t \in ChainTasks :
          LET v == ctask[t].v
              n == Len(versions) + 1
          IN  /\ Completes(t, "next_version") =>
                    /\ Len(versions') = n
                    /\ versions'[n].tree = versions[v].tree
                    /\ versions'[n].next_leaf = versions[v].next_leaf
                    /\ versions'[n].diff = <<>>
                    /\ versions'[n].next = None
                    /\ versions'[v] = [versions[v] EXCEPT !.next = n]
                    /\ \A o \in 1 .. Len(versions) :
                          o # v => versions'[o] = versions[o]
              /\ (Completes(t, "update")
                    \/ Completes(t, "append_many_fresh")) =>
                    \A o \in 1 .. Len(versions) :
                        o # v =>
                            /\ versions'[o] = versions[o]
                            /\ TreeRoot(versions'[o].tree) =
                                  TreeRoot(versions[o].tree)
              /\ Completes(t, "apply_next_update") =>
                    \A o \in 1 .. Len(versions) :
                        o # v => versions'[o].tree = versions[o].tree]_vars

\* a version that had updates of its own has branched, its child was
\* updated and the two differ
C18_Witness ==
    /\ Len(versions) >= 2
    /\ versions[1].next = 2
    /\ madeOn[1] # <<>>
    /\ madeOn[2] # <<>>
    /\ versions[2].diff # <<>>
    /\ versions[1].tree # versions[2].tree

\* `a` is the beginning of `b`
IsPrefix(a, b) == Len(a) <= Len(b) /\ SubSeq(b, 1, Len(a)) = a

\* the chain A -> B -> C: versions 1, 2 and 3
Chain3 ==
    /\ Len(versions) >= 3
    /\ versions[1].next = 2
    /\ versions[2].next = 3

\* what B has been given to pass on, in order: the updates made on it and
\* then those it applied from C
passedOn(v) == madeOn[v] \o appliedTo[v]

\* with all writes made on the last version of the chain, A has the
\* updates B had to pass on, in order, and B those of C; and when nothing
\* is left in B's and C's diffs, A's leaves and root are C's
C20_Carried ==
    (tipOnly /\ Chain3) =>
        /\ IsPrefix(appliedTo[2], passedOn(3))
        /\ IsPrefix(appliedTo[1], passedOn(2))
        /\ (versions[2].diff = <<>> /\ versions[3].diff = <<>>) =>
              /\ versions[1].tree = versions[3].tree
              /\ TreeRoot(versions[1].tree) = TreeRoot(versions[3].tree)
              /\ appliedTo[1] = passedOn(2)
              /\ appliedTo[2] = passedOn(3)

\* C20: in a chain A -> B -> C, an update apply_next_update on B consumes
\* from C's diff becomes pending for A, peek_next_update on A returns the
\* oldest update pending for A, and repeated apply_next_update on B and on A
\* brings A's leaves and root to C's, the updates reaching A in the order
\* they were made on C.
C20_ChainCarries ==
    /\ []C20_Carried
    /\ [][\A t \in ChainTasks :
             /\ (/\ Chain3 /\ ctask[t].v = 2
                 /\ Completes(t, "apply_next_update")
                 /\ versions[3].diff # <<>>) =>
                    /\ versions'[2].diff =
                          Append(versions[2].diff, versions[3].diff[1])
                    /\ versions'[3].diff = Tail(versions[3].diff)
             /\ (/\ Chain3 /\ ctask[t].v = 1
                 /\ Completes(t, "peek_next_update")) =>
                    ctask'[t].ret.update =
                       IF versions[2].diff = <<>> THEN {}
                       ELSE {versions[2].diff[1]}]_vars

\* two updates made on C, the second undoing the first, have both reached A
C20_Witness ==
    /\ tipOnly /\ Chain3
    /\ Len(madeOn[3]) = 2
    /\ madeOn[3][1].leaf_index = madeOn[3][2].leaf_index
    /\ madeOn[3][1].element # madeOn[3][2].element
    /\ appliedTo[1] = madeOn[3]
    /\ versions[2].diff = <<>> /\ versions[3].diff = <<>>
    /\ versions[1].tree = versions[3].tree

====
